---- MODULE Spec2Model ----
(***************************************************************************)
(* State-machine model of TeamBettingContract (src/contract.py): the game  *)
(* lifecycle, the betting and throw engines, settlement and withdrawal.    *)
(*                                                                         *)
(* Amounts are counted in units of half a NEAR (ONE_NEAR == 2), time in    *)
(* units of half an hour (HOUR_NS == 2); every division of the source is   *)
(* kept as a floor division over these units.                              *)
(***************************************************************************)
EXTENDS Integers, FiniteSets, Sequences, TLC

\* ------------------------------------------------------------ constants
EARLY_BIRD_RATE == 32
POINT_DECAY_RATES == <<24, 23, 22, 21, 20, 19, 18, 17, 16, 15>>
FIRST_WINDOW_HOURS == 3
SECOND_WINDOW_HOURS == 6
MAX_THROWS_PER_GAME == 2
ONE_NEAR == 2       \* one NEAR, in half-NEAR units
HOUR_NS == 2        \* 60 * 60 * 1_000_000_000 ns, in half-hour units

\* ------------------------------------------------------------ bounds and inputs
MaxTime == 7          \* the clock stops advancing here
MaxStake == 4         \* bets are offered while both teams' totals together fit
MaxCredits == 2       \* settlement/refund passes followed per game instance

Teams == {"A", "B"}
Accounts == {"admin", "bot", "u1", "u2"}
Bettors == {"u1", "u2"}
Outsiders == {"u1"}                 \* callers tried on admin-only entry points
BanTargets == {"u2"}
Deposits == {0, 1, 2}

\* bet_on_team arguments <<team, attached deposit>> offered to each bettor
BetArgs(c) ==
    IF c = "u1"
    THEN ({"A", "B"} \X Deposits) \cup {<<"X", 2>>}
    ELSE {"B"} \X Deposits

Withdrawers == {"u1"}
Percents == {20, 60, 95}

\* start_game arguments <<pot_size, game_duration, commission_rate>>: two
\* valid triples and one triple per range check that fails it
StartArgs == {<<1, 60, 0>>, <<1, 60, 50>>, <<0, 60, 0>>, <<1, 59, 0>>, <<1, 60, 51>>}
StartCalls == ({"admin"} \X StartArgs) \cup (Outsiders \X {<<1, 60, 0>>})
TickSteps == {7}

MaxClock == 20        \* the long clock stops advancing here (10 hours)
MaxClockStake == 5    \* bets of the long-clock specification fit within this total
MaxSettleTime == 12   \* the three-hourly clock stops advancing here (6 hours)
MaxSettleStake == 5   \* bets of the settlement specification fit within this total
SettleSteps == {6}
SettlePercents == {20, 60}
SettleBets(c) == IF c = "u1" THEN {<<"A", 2>>, <<"B", 1>>} ELSE {<<"B", 2>>}
SettleCommissions == {0, 50}

\* inputs of the specification that records rejected calls
RejectStartArgs == {<<1, 60, 0>>, <<0, 60, 0>>, <<1, 59, 0>>, <<1, 60, 51>>}
RejectBets(c) ==
    IF c = "u1"
    THEN {<<"A", 2>>, <<"B", 1>>, <<"A", 0>>, <<"X", 2>>}
    ELSE {<<"B", 2>>}
RejectPercents == {60, 95}
RejectSteps == {12}     \* 6 hours: past both throw windows
MaxRejectTime == 12   \* the clock of the rejection specification stops here
MaxRejectStake == 3   \* its bets fit within this total

ClockSteps == {2, 5}     \* 1 and 2.5 hours: every half hour from 2 h on is met
ClockPercents == {20, 90}
ClockThrowers == {"u2"}
ClockBets(c) == IF c = "u1" THEN {<<"A", 1>>, <<"A", 3>>} ELSE {<<"B", 2>>}

VARIABLES
    admin, timer_bot, paused,
    game_active, game_started, game_start_time,
    pot_size, commission_rate, game_duration,
    force_refund_mode, winning_team, withdrawable,
    team_bets, team_points, team_total_amount,
    banned_players, transfer_counts, last_transfer_time,
    block_timestamp,  \* the host's clock
    credits,          \* settlement/refund passes since the last start_game
    last              \* the successful call (or clock step) of the last step

storage == <<admin, timer_bot, paused, game_active, game_started, game_start_time,
             pot_size, commission_rate, game_duration, force_refund_mode,
             winning_team, withdrawable, team_bets, team_points,
             team_total_amount, banned_players, transfer_counts,
             last_transfer_time>>

vars == <<storage, block_timestamp, credits, last>>

\* ------------------------------------------------------------ dictionaries
EmptyDict == [k \in {} |-> 0]
Get(d, k, default) == IF k \in DOMAIN d THEN d[k] ELSE default
Put(d, k, v) == [x \in (DOMAIN d) \cup {k} |-> IF x = k THEN v ELSE d[x]]

RECURSIVE SumAmount(_, _)
SumAmount(bets, todo) ==
    IF todo = {} THEN 0
    ELSE LET uid == CHOOSE u \in todo : TRUE
         IN bets[uid].amount + SumAmount(bets, todo \ {uid})

RECURSIVE SumPoints(_, _)
SumPoints(bets, todo) ==
    IF todo = {} THEN 0
    ELSE LET uid == CHOOSE u \in todo : TRUE
         IN bets[uid].points + SumPoints(bets, todo \ {uid})

OtherTeam(t) == IF t = "A" THEN "B" ELSE "A"

\* ------------------------------------------------------------ call records
\* the successful call (or clock step) a step has made
Call(op, caller, team, n) == [op |-> op, caller |-> caller, team |-> team, n |-> n]

\* a call that raises: the host discards the call together with its writes
Reject(op, caller, err) == UNCHANGED vars

RaisedStorage_counted(op) ==
    IF op = "throw_points"
    THEN [storage EXCEPT ![17] = Put(transfer_counts, "u2", 1)]
    ELSE storage

\* the storage as an entry point leaves it when it raises: in every entry
\* point each raise comes before the first write to storage
RaisedStorage(op) == storage

\* a call that raises, recorded: the record names neither the entry point
\* nor the caller, the error reaches the caller and nothing is stored
rejected(op) ==
    /\ LET left == RaisedStorage(op)
       IN /\ admin' = left[1]
          /\ timer_bot' = left[2]
          /\ paused' = left[3]
          /\ game_active' = left[4]
          /\ game_started' = left[5]
          /\ game_start_time' = left[6]
          /\ pot_size' = left[7]
          /\ commission_rate' = left[8]
          /\ game_duration' = left[9]
          /\ force_refund_mode' = left[10]
          /\ winning_team' = left[11]
          /\ withdrawable' = left[12]
          /\ team_bets' = left[13]
          /\ team_points' = left[14]
          /\ team_total_amount' = left[15]
          /\ banned_players' = left[16]
          /\ transfer_counts' = left[17]
          /\ last_transfer_time' = left[18]
    /\ last' = Call("rejected", "", "", 0)
    /\ UNCHANGED <<block_timestamp, credits>>

\* one call of an entry point: rejected when err names a failed check,
\* carried out by accepted otherwise
Attempt(op, c, err, accepted) ==
    IF err # "" THEN rejected(op) ELSE accepted

\* ------------------------------------------------------------ initialize
Init ==
    /\ admin = "admin"
    /\ timer_bot = "bot"
    /\ paused = FALSE
    /\ game_active = FALSE
    /\ game_started = FALSE
    /\ game_start_time = 0
    /\ pot_size = 0
    /\ commission_rate = 10
    /\ game_duration = 3600
    /\ force_refund_mode = FALSE
    /\ winning_team = ""
    /\ withdrawable = EmptyDict
    /\ team_bets = [t \in Teams |-> EmptyDict]
    /\ team_points = [t \in Teams |-> 0]
    /\ team_total_amount = [t \in Teams |-> 0]
    /\ banned_players = EmptyDict
    /\ transfer_counts = EmptyDict
    /\ last_transfer_time = EmptyDict
    /\ block_timestamp = 0
    /\ credits = 0
    /\ last = Call("initialize", "admin", "", 0)

\* ------------------------------------------------------------ common asserts
IsBanned(user) == Get(banned_players, user, FALSE)

AdminErr(c) ==
    IF c # admin THEN "Only admin"
    ELSE IF paused THEN "Contract is paused"
    ELSE ""

\* ------------------------------------------------------------ clock
Tick(d) ==
    /\ block_timestamp + d <= MaxTime
    /\ block_timestamp' = block_timestamp + d
    /\ last' = Call("tick", "", "", d)
    /\ UNCHANGED <<storage, credits>>

\* the clock advancing by d up to limit
TickTo(d, limit) ==
    /\ block_timestamp + d <= limit
    /\ block_timestamp' = block_timestamp + d
    /\ last' = Call("tick", "", "", d)
    /\ UNCHANGED <<storage, credits>>

\* ------------------------------------------------------------ admin controls
pause_game(c) ==
    IF c # admin THEN Reject("pause_game", c, "Only admin")
    ELSE /\ paused' = TRUE
         /\ last' = Call("pause_game", c, "", 0)
         /\ UNCHANGED <<admin, timer_bot, game_active, game_started,
                        game_start_time, pot_size, commission_rate,
                        game_duration, force_refund_mode, winning_team,
                        withdrawable, team_bets, team_points,
                        team_total_amount, banned_players, transfer_counts,
                        last_transfer_time, block_timestamp, credits>>

unpause_game(c) ==
    IF c # admin THEN Reject("unpause_game", c, "Only admin")
    ELSE /\ paused' = FALSE
         /\ last' = Call("unpause_game", c, "", 0)
         /\ UNCHANGED <<admin, timer_bot, game_active, game_started,
                        game_start_time, pot_size, commission_rate,
                        game_duration, force_refund_mode, winning_team,
                        withdrawable, team_bets, team_points,
                        team_total_amount, banned_players, transfer_counts,
                        last_transfer_time, block_timestamp, credits>>

\* the check of pause_game and of unpause_game
pause_game_err(c) == IF c # admin THEN "Only admin" ELSE ""

SetBanned(c, op, player_id, flag) ==
    LET err == AdminErr(c)
    IN IF err # "" THEN Reject(op, c, err)
       ELSE /\ banned_players' = Put(banned_players, player_id, flag)
            /\ last' = Call(op, c, "", 0)
            /\ UNCHANGED <<admin, timer_bot, paused, game_active, game_started,
                           game_start_time, pot_size, commission_rate,
                           game_duration, force_refund_mode, winning_team,
                           withdrawable, team_bets, team_points,
                           team_total_amount, transfer_counts,
                           last_transfer_time, block_timestamp, credits>>

ban_player(c, player_id) == SetBanned(c, "ban_player", player_id, TRUE)

unban_player(c, player_id) == SetBanned(c, "unban_player", player_id, FALSE)

\* ------------------------------------------------------------ start_game
start_game_err(c, pot, dur, comm) ==
    IF AdminErr(c) # "" THEN AdminErr(c)
    ELSE IF game_active THEN "Game already active"
    ELSE IF pot <= 0 THEN "Pot size must be greater than zero"
    ELSE IF dur < 60 THEN "Game duration must be at least 60 seconds"
    ELSE IF comm < 0 \/ comm > 50
         THEN "Commission rate must be between 0 and 50 percent"
    ELSE ""

start_game_withdrawable == EmptyDict

start_game_transfer_counts_kept == transfer_counts

start_game_transfer_counts == EmptyDict

start_game(c, pot, dur, comm) ==
    LET err == start_game_err(c, pot, dur, comm)
    IN IF err # "" THEN Reject("start_game", c, err)
       ELSE /\ pot_size' = pot
            /\ game_duration' = dur
            /\ commission_rate' = comm
            /\ game_active' = TRUE
            /\ game_started' = FALSE
            /\ game_start_time' = 0
            /\ force_refund_mode' = FALSE
            /\ team_bets' = [t \in Teams |-> EmptyDict]
            /\ team_points' = [t \in Teams |-> 0]
            /\ team_total_amount' = [t \in Teams |-> 0]
            /\ winning_team' = ""
            /\ withdrawable' = start_game_withdrawable
            /\ transfer_counts' = start_game_transfer_counts
            /\ last_transfer_time' = EmptyDict
            /\ credits' = 0
            /\ last' = Call("start_game", c, "", pot)
            /\ UNCHANGED <<admin, timer_bot, paused, banned_players,
                           block_timestamp>>

\* ------------------------------------------------------------ timer
\* _start_timer_internal: the assignments of game_started and game_start_time
start_timer_internal ==
    /\ game_started' = TRUE
    /\ game_start_time' = block_timestamp

start_timer_err(c) ==
    IF AdminErr(c) # "" THEN AdminErr(c)
    ELSE IF ~game_active THEN "No active game"
    ELSE IF game_started THEN "Timer already started"
    ELSE ""

start_timer(c) ==
    LET err == start_timer_err(c)
    IN IF err # "" THEN Reject("start_timer", c, err)
       ELSE /\ start_timer_internal
            /\ last' = Call("start_timer", c, "", 0)
            /\ UNCHANGED <<admin, timer_bot, paused, game_active, pot_size,
                           commission_rate, game_duration, force_refund_mode,
                           winning_team, withdrawable, team_bets, team_points,
                           team_total_amount, banned_players, transfer_counts,
                           last_transfer_time, block_timestamp, credits>>

\* ------------------------------------------------------------ betting
ElapsedHours == (block_timestamp - game_start_time) \div HOUR_NS

CurrentRate_flat ==
    IF ~game_started THEN EARLY_BIRD_RATE
    ELSE IF ElapsedHours < Len(POINT_DECAY_RATES)
         THEN POINT_DECAY_RATES[ElapsedHours + 1]
         ELSE POINT_DECAY_RATES[Len(POINT_DECAY_RATES)]

CurrentRate ==
    IF ~game_started THEN EARLY_BIRD_RATE
    ELSE IF ElapsedHours < Len(POINT_DECAY_RATES)
         THEN POINT_DECAY_RATES[ElapsedHours + 1]
         ELSE 1

BetPoints(deposit, rate) == (deposit \div ONE_NEAR) * rate

UpsertBet(bets, user, deposit, pts) ==
    IF user \in DOMAIN bets
    THEN Put(bets, user, [amount |-> bets[user].amount + deposit,
                          points |-> bets[user].points + pts])
    ELSE Put(bets, user, [amount |-> deposit, points |-> pts])

BetTotalAmount_units(old, deposit) == old + (deposit \div ONE_NEAR) * ONE_NEAR

BetTotalAmount(old, deposit) == old + deposit

BetTeamPoints(old, pts) == old + pts

AutoStartThreshold(pot, comm) == ((pot * (100 + comm)) \div 100) * ONE_NEAR

\* _maybe_auto_start_timer, evaluated on the totals the bet has just written
maybe_auto_start_timer(totals) ==
    IF game_started THEN UNCHANGED <<game_started, game_start_time>>
    ELSE IF /\ totals["A"] >= AutoStartThreshold(pot_size, commission_rate)
            /\ totals["B"] >= AutoStartThreshold(pot_size, commission_rate)
         THEN start_timer_internal
         ELSE UNCHANGED <<game_started, game_start_time>>

bet_on_team_err_unbanned(c, team, deposit) ==
    IF paused THEN "Contract is paused"
    ELSE IF ~game_active THEN "No active game"
    ELSE IF force_refund_mode THEN "Refund mode"
    ELSE IF team \notin {"A", "B"} THEN "Team must be A or B"
    ELSE IF deposit < ONE_NEAR \div 2 THEN "Min 0.5"
    ELSE ""

bet_on_team_err(c, team, deposit) ==
    IF paused THEN "Contract is paused"
    ELSE IF ~game_active THEN "No active game"
    ELSE IF force_refund_mode THEN "Refund mode"
    ELSE IF team \notin {"A", "B"} THEN "Team must be A or B"
    ELSE IF IsBanned(c) THEN "Player is banned"
    ELSE IF deposit < ONE_NEAR \div 2 THEN "Min 0.5"
    ELSE ""

\* bet_on_team, offered while both teams' totals together stay within cap
bet_on_team_upto(c, team, deposit, cap) ==
    LET err == bet_on_team_err(c, team, deposit)
    IN IF err # "" THEN Reject("bet_on_team", c, err)
       ELSE LET pts == BetPoints(deposit, CurrentRate)
                totals == [team_total_amount EXCEPT
                             ![team] = BetTotalAmount(@, deposit)]
            IN /\ totals["A"] + totals["B"] <= cap
               /\ team_bets' = [team_bets EXCEPT
                                  ![team] = UpsertBet(@, c, deposit, pts)]
               /\ team_points' = [team_points EXCEPT
                                    ![team] = BetTeamPoints(@, pts)]
               /\ team_total_amount' = totals
               /\ maybe_auto_start_timer(totals)
               /\ last' = Call("bet_on_team", c, team, deposit)
               /\ UNCHANGED <<admin, timer_bot, paused, game_active, pot_size,
                              commission_rate, game_duration,
                              force_refund_mode, winning_team, withdrawable,
                              banned_players, transfer_counts,
                              last_transfer_time, block_timestamp, credits>>

bet_on_team(c, team, deposit) == bet_on_team_upto(c, team, deposit, MaxStake)

\* ------------------------------------------------------------ throw points
InTeam(user, t) == user \in DOMAIN team_bets[t]

QuotaReached_late(count) == count > MAX_THROWS_PER_GAME

QuotaReached(count) == count >= MAX_THROWS_PER_GAME

ThrowWindow_open(elapsed) ==
    IF elapsed < FIRST_WINDOW_HOURS THEN <<TRUE, 60, 90>>
    ELSE <<TRUE, 20, 40>>

\* the window of lines 252-257 as <<open, lo, hi>>
ThrowWindow(elapsed) ==
    IF elapsed < FIRST_WINDOW_HOURS THEN <<TRUE, 60, 90>>
    ELSE IF elapsed < SECOND_WINDOW_HOURS THEN <<TRUE, 20, 40>>
    ELSE <<FALSE, 0, 0>>

PtsMove_ceil(pts_owned, percent) == (pts_owned * percent + 99) \div 100

PtsMove(pts_owned, percent) == (pts_owned * percent) \div 100

InvalidAmount_offbyone(pts_owned, pts_move) == pts_move < 0 \/ pts_owned - pts_move < 0

InvalidAmount(pts_owned, pts_move) == pts_move <= 0 \/ pts_owned - pts_move < 1

DonorTeam(user) == IF InTeam(user, "A") THEN "A" ELSE "B"

throw_points_err(c, percent) ==
    IF paused THEN "Contract is paused"
    ELSE IF ~game_started THEN "Timer not started"
    ELSE IF IsBanned(c) THEN "Player is banned"
    ELSE IF InTeam(c, "A") /\ InTeam(c, "B")
         THEN "Cannot throw points - bet on both teams"
    ELSE IF ~InTeam(c, "A") /\ ~InTeam(c, "B") THEN "No bet"
    ELSE IF QuotaReached(Get(transfer_counts, c, 0)) THEN "Limit reached"
    ELSE IF ~ThrowWindow(ElapsedHours)[1] THEN "Window closed"
    ELSE IF ~(ThrowWindow(ElapsedHours)[2] <= percent
              /\ percent <= ThrowWindow(ElapsedHours)[3])
         THEN "Allowed lo-hi"
    ELSE IF InvalidAmount(team_bets[DonorTeam(c)][c].points,
                          PtsMove(team_bets[DonorTeam(c)][c].points, percent))
         THEN "Invalid amount"
    ELSE ""

RecipPoints_dropped(old, pts_move) == old

RecipPoints(old, pts_move) == old + pts_move

throw_points(c, percent) ==
    LET err == throw_points_err(c, percent)
    IN IF err # "" THEN Reject("throw_points", c, err)
       ELSE LET donor == DonorTeam(c)
                recip == OtherTeam(donor)
                record == team_bets[donor][c]
                pts_move == PtsMove(record.points, percent)
            IN /\ team_bets' = [team_bets EXCEPT ![donor] =
                     Put(@, c, [record EXCEPT !.points = @ - pts_move])]
               /\ team_points' = [team_points EXCEPT
                                    ![donor] = @ - pts_move,
                                    ![recip] = RecipPoints(@, pts_move)]
               /\ transfer_counts' =
                     Put(transfer_counts, c, Get(transfer_counts, c, 0) + 1)
               /\ last_transfer_time' =
                     Put(last_transfer_time, c, block_timestamp)
               /\ last' = Call("throw_points", c, donor, percent)
               /\ UNCHANGED <<admin, timer_bot, paused, game_active,
                              game_started, game_start_time, pot_size,
                              commission_rate, game_duration,
                              force_refund_mode, winning_team, withdrawable,
                              team_total_amount, banned_players,
                              block_timestamp, credits>>

\* ------------------------------------------------------------ force refund
RefundAmount_points(b) == b.points

RefundAmount(b) == b.amount

RECURSIVE RefundAll(_, _, _)
RefundAll(withdraw, bets, todo) ==
    IF todo = {} THEN withdraw
    ELSE LET uid == CHOOSE u \in todo : TRUE
         IN RefundAll(Put(withdraw, uid,
                          Get(withdraw, uid, 0) + RefundAmount(bets[uid])),
                      bets, todo \ {uid})

force_end_game_refund_err(c) ==
    IF AdminErr(c) # "" THEN AdminErr(c)
    ELSE IF ~game_active THEN "No active game"
    ELSE ""

force_end_game_refund(c) ==
    LET err == force_end_game_refund_err(c)
    IN IF err # "" THEN Reject("force_end_game_refund", c, err)
       ELSE /\ game_active' = FALSE
            /\ force_refund_mode' = TRUE
            /\ withdrawable' =
                  RefundAll(RefundAll(withdrawable, team_bets["A"],
                                      DOMAIN team_bets["A"]),
                            team_bets["B"], DOMAIN team_bets["B"])
            /\ credits < MaxCredits
            /\ credits' = credits + 1
            /\ last' = Call("force_end_game_refund", c, "", 0)
            /\ UNCHANGED <<admin, timer_bot, paused, game_started,
                           game_start_time, pot_size, commission_rate,
                           game_duration, winning_team, team_bets,
                           team_points, team_total_amount, banned_players,
                           transfer_counts, last_transfer_time,
                           block_timestamp>>

\* ------------------------------------------------------------ end game
Winner_higher(a_pts, b_pts) == IF a_pts > b_pts THEN "A" ELSE "B"

Winner(a_pts, b_pts) == IF a_pts < b_pts THEN "A" ELSE "B"

PotValue == pot_size * ONE_NEAR

Commission(pot, comm_pct) == (pot * comm_pct) \div 100

Share_roundup(points, pot, win_total_pts) ==
    IF win_total_pts # 0 THEN (points * pot) \div win_total_pts + 1 ELSE 0

Share(points, pot, win_total_pts) ==
    IF win_total_pts # 0 THEN (points * pot) \div win_total_pts ELSE 0

LoserRefund_loss(amount, total_to_pay, lose_total_amt) ==
    (amount * total_to_pay) \div lose_total_amt

LoserRefund(amount, total_to_pay, lose_total_amt) ==
    amount - ((amount * total_to_pay) \div lose_total_amt)

RECURSIVE PayWinners(_, _, _, _, _)
PayWinners(withdraw, win_bets, todo, pot, win_total_pts) ==
    IF todo = {} THEN withdraw
    ELSE LET uid == CHOOSE u \in todo : TRUE
             payout == win_bets[uid].amount
                       + Share(win_bets[uid].points, pot, win_total_pts)
         IN PayWinners(Put(withdraw, uid, Get(withdraw, uid, 0) + payout),
                       win_bets, todo \ {uid}, pot, win_total_pts)

RECURSIVE RefundLosers(_, _, _, _, _)
RefundLosers(withdraw, lose_bets, todo, total_to_pay, lose_total_amt) ==
    IF todo = {} THEN withdraw
    ELSE LET uid == CHOOSE u \in todo : TRUE
             refund == LoserRefund(lose_bets[uid].amount, total_to_pay,
                                   lose_total_amt)
         IN RefundLosers(Put(withdraw, uid, Get(withdraw, uid, 0) + refund),
                         lose_bets, todo \ {uid}, total_to_pay, lose_total_amt)

WinTotalPoints_aggregate(win) == team_points[win]

\* win_total_pts: the points of the winning team's records, summed
WinTotalPoints(win) == SumPoints(team_bets[win], DOMAIN team_bets[win])

\* _distribute_payouts: the withdrawable dictionary it saves, for winner win
distribute_payouts(win) ==
    LET pot == PotValue
        win_bets == team_bets[win]
        lose_bets == team_bets[OtherTeam(win)]
        win_total_pts == WinTotalPoints(win)
        lose_total_amt == SumAmount(lose_bets, DOMAIN lose_bets)
        commission == Commission(pot, commission_rate)
        total_to_pay == pot + commission
        paid == PayWinners(withdrawable, win_bets, DOMAIN win_bets, pot,
                           win_total_pts)
        refunded == IF lose_total_amt >= total_to_pay
                    THEN RefundLosers(paid, lose_bets, DOMAIN lose_bets,
                                      total_to_pay, lose_total_amt)
                    ELSE paid
    IN Put(refunded, admin, Get(refunded, admin, 0) + commission)

end_game_err(c) ==
    IF c \notin {admin, timer_bot} THEN "Only admin or timer bot"
    ELSE IF ~game_started THEN "Timer not started"
    ELSE IF team_points["A"] = team_points["B"] THEN "Tie"
    ELSE ""

end_game(c) ==
    LET err == end_game_err(c)
    IN IF err # "" THEN Reject("end_game", c, err)
       ELSE LET win == Winner(team_points["A"], team_points["B"])
            IN /\ winning_team' = win
               /\ game_active' = FALSE
               /\ withdrawable' = distribute_payouts(win)
               /\ credits < MaxCredits
               /\ credits' = credits + 1
               /\ last' = Call("end_game", c, win, 0)
               /\ UNCHANGED <<admin, timer_bot, paused, game_started,
                              game_start_time, pot_size, commission_rate,
                              game_duration, force_refund_mode, team_bets,
                              team_points, team_total_amount, banned_players,
                              transfer_counts, last_transfer_time,
                              block_timestamp>>

\* ------------------------------------------------------------ withdraw
withdraw_err_nobalance(c) ==
    IF paused THEN "Contract is paused"
    ELSE IF game_active THEN "Game active"
    ELSE ""

withdraw_err(c) ==
    IF paused THEN "Contract is paused"
    ELSE IF game_active THEN "Game active"
    ELSE IF Get(withdrawable, c, 0) = 0 THEN "Nothing to withdraw"
    ELSE ""

\* last.n records the amount of the transfer promise
withdraw(c) ==
    LET err == withdraw_err(c)
    IN IF err # "" THEN Reject("withdraw", c, err)
       ELSE /\ withdrawable' = Put(withdrawable, c, 0)
            /\ last' = Call("withdraw", c, "", Get(withdrawable, c, 0))
            /\ UNCHANGED <<admin, timer_bot, paused, game_active, game_started,
                           game_start_time, pot_size, commission_rate,
                           game_duration, force_refund_mode, winning_team,
                           team_bets, team_points, team_total_amount,
                           banned_players, transfer_counts,
                           last_transfer_time, block_timestamp, credits>>

\* ------------------------------------------------------------ specifications
\* the game surface: every entry point that touches a game, and the clock
Next ==
    \/ \E d \in TickSteps : Tick(d)
    \/ \E call \in StartCalls :
          start_game(call[1], call[2][1], call[2][2], call[2][3])
    \/ \E c \in {"admin"} \cup Outsiders : start_timer(c)
    \/ \E c \in Bettors : \E arg \in BetArgs(c) :
          bet_on_team(c, arg[1], arg[2])
    \/ \E c \in Bettors, percent \in Percents : throw_points(c, percent)
    \/ \E c \in {"admin"} \cup Outsiders : force_end_game_refund(c)
    \/ \E c \in {"admin", "bot"} \cup Outsiders : end_game(c)
    \/ \E c \in Withdrawers : withdraw(c)

Spec == Init /\ [][Next]_vars

\* the game surface together with the pause and ban controls
NextAdmin ==
    \/ Next
    \/ \E c \in {"admin"} \cup Outsiders : pause_game(c)
    \/ \E c \in {"admin"} \cup Outsiders : unpause_game(c)
    \/ \E c \in {"admin"} \cup Outsiders, p \in BanTargets : ban_player(c, p)
    \/ \E c \in {"admin"} \cup Outsiders, p \in BanTargets : unban_player(c, p)

SpecAdmin == Init /\ [][NextAdmin]_vars

\* the entry points that write what bet_on_team's checks read (pause flag,
\* game activity, force-refund mode, ban list), with bet_on_team itself
NextGate ==
    \/ start_game("admin", 1, 60, 0)
    \/ start_timer("admin")
    \/ \E c \in Bettors : \E arg \in BetArgs(c) :
          bet_on_team(c, arg[1], arg[2])
    \/ force_end_game_refund("admin")
    \/ end_game("admin")
    \/ \E c \in {"admin"} \cup Outsiders : pause_game(c)
    \/ \E c \in {"admin"} \cup Outsiders : unpause_game(c)
    \/ \E c \in {"admin"} \cup Outsiders, p \in BanTargets : ban_player(c, p)
    \/ \E c \in {"admin"} \cup Outsiders, p \in BanTargets : unban_player(c, p)

SpecGate == Init /\ [][NextGate]_vars

\* games started at time 0 and followed for 10 hours: arming at any time,
\* bets at every rate of the table and after it, throws in both windows and
\* attempted after them
NextClock ==
    \/ \E d \in ClockSteps : TickTo(d, MaxClock)
    \/ block_timestamp = 0 /\ start_game("admin", 1, 60, 0)
    \/ start_timer("admin")
    \/ \E c \in Bettors : \E arg \in ClockBets(c) :
          bet_on_team_upto(c, arg[1], arg[2], MaxClockStake)
    \/ \E c \in ClockThrowers, percent \in ClockPercents : throw_points(c, percent)

SpecClock == Init /\ [][NextClock]_vars

\* games started at time 0 and carried to settlement: bets before and after
\* arming, throws in both windows, end_game by the admin or the timer bot
NextSettle ==
    \/ \E d \in SettleSteps : TickTo(d, MaxSettleTime)
    \/ \E comm \in SettleCommissions :
          block_timestamp = 0 /\ start_game("admin", 1, 60, comm)
    \/ start_timer("admin")
    \/ \E c \in Bettors : \E arg \in SettleBets(c) :
          bet_on_team_upto(c, arg[1], arg[2], MaxSettleStake)
    \/ \E c \in Bettors, percent \in SettlePercents : throw_points(c, percent)
    \/ \E c \in {"admin", "bot"} : end_game(c)

SpecSettle == Init /\ [][NextSettle]_vars

\* every entry point, with the rejected calls recorded
NextReject ==
    \/ \E d \in RejectSteps : TickTo(d, MaxRejectTime)
    \/ \E c \in {"admin"} \cup Outsiders, a \in RejectStartArgs :
          Attempt("start_game", c, start_game_err(c, a[1], a[2], a[3]),
                  start_game(c, a[1], a[2], a[3]))
    \/ \E c \in {"admin"} \cup Outsiders :
          Attempt("start_timer", c, start_timer_err(c), start_timer(c))
    \/ \E c \in Bettors : \E arg \in RejectBets(c) :
          Attempt("bet_on_team", c, bet_on_team_err(c, arg[1], arg[2]),
                  bet_on_team_upto(c, arg[1], arg[2], MaxRejectStake))
    \/ \E c \in Bettors, percent \in RejectPercents :
          Attempt("throw_points", c, throw_points_err(c, percent),
                  throw_points(c, percent))
    \/ \E c \in {"admin"} \cup Outsiders :
          Attempt("force_end_game_refund", c, force_end_game_refund_err(c),
                  force_end_game_refund(c))
    \/ \E c \in {"admin"} \cup Outsiders :
          Attempt("end_game", c, end_game_err(c), end_game(c))
    \/ \E c \in Withdrawers :
          Attempt("withdraw", c, withdraw_err(c), withdraw(c))
    \/ \E c \in {"admin"} \cup Outsiders :
          Attempt("pause_game", c, pause_game_err(c),
                  pause_game(c))
    \/ \E c \in {"admin"} \cup Outsiders :
          Attempt("unpause_game", c, pause_game_err(c),
                  unpause_game(c))
    \/ \E c \in {"admin"} \cup Outsiders, p \in BanTargets :
          Attempt("ban_player", c, AdminErr(c), ban_player(c, p))
    \/ \E c \in {"admin"} \cup Outsiders, p \in BanTargets :
          Attempt("unban_player", c, AdminErr(c), unban_player(c, p))

SpecReject == Init /\ [][NextReject]_vars

\* ------------------------------------------------------------ properties
Balance(a) == Get(withdrawable, a, 0)

BalanceAfter(a) == Get(withdrawable', a, 0)

StakeIn(t, a) == IF a \in DOMAIN team_bets[t] THEN team_bets[t][a].amount ELSE 0

StakeOf(a) == StakeIn("A", a) + StakeIn("B", a)

RecordPoints(t) == SumPoints(team_bets[t], DOMAIN team_bets[t])

RecordAmounts(t) == SumAmount(team_bets[t], DOMAIN team_bets[t])

ThrowCount(a) == Get(transfer_counts, a, 0)

ThrowCountAfter(a) == Get(transfer_counts', a, 0)

OnOneTeam(a) == (a \in DOMAIN team_bets["A"]) # (a \in DOMAIN team_bets["B"])

\* what one step adds to the withdrawable ledger, summed over the accounts
Credited ==
    (BalanceAfter("admin") - Balance("admin")) + (BalanceAfter("bot") - Balance("bot"))
    + (BalanceAfter("u1") - Balance("u1")) + (BalanceAfter("u2") - Balance("u2"))

ClaimPotValue == pot_size * ONE_NEAR

ClaimCommission == (ClaimPotValue * commission_rate) \div 100

\* C1: a successful start_game leaves every account's withdrawable balance
\* unchanged, and a balance is decreased only by that account's own
\* successful withdraw.
C1_BalancePersists ==
    [][/\ last'.op = "start_game" =>
            \A a \in Accounts : BalanceAfter(a) = Balance(a)
       /\ \A a \in Accounts :
            BalanceAfter(a) < Balance(a) =>
                (last'.op = "withdraw" /\ last'.caller = a)]_vars

\* C2: once end_game or force_end_game_refund has succeeded in a game
\* instance, no later end_game or force_end_game_refund succeeds before the
\* next start_game, so the ledger is credited at most once per instance.
C2_TerminalPerGame ==
    [][credits >= 1 =>
          last'.op \notin {"end_game", "force_end_game_refund"}]_vars

\* C3 (as claimed): each team's total_points equals the sum of the points of
\* that team's bet records.
C3_PointsEqualRecordSum == \A t \in Teams : team_points[t] = RecordPoints(t)

\* C3 (amended): each team's total_points is at least the sum of the points
\* of that team's bet records; the two are equal for both teams as long as
\* no throw has been made in the game instance, and once a throw has been
\* made some team's total exceeds the sum over its records (thrown points
\* are added to the receiving team's total only, to no record).
C3_PointsCoverRecords ==
    /\ \A t \in Teams : team_points[t] >= RecordPoints(t)
    /\ IF \A c \in Accounts : ThrowCount(c) = 0
       THEN \A t \in Teams : team_points[t] = RecordPoints(t)
       ELSE \E t \in Teams : team_points[t] > RecordPoints(t)

C3_Witness ==
    /\ game_active
    /\ ThrowCount("u2") = 1
    /\ team_points["A"] > RecordPoints("A")
    /\ RecordPoints("A") > 0

\* C4: each team's total staked amount equals the sum of the staked amounts
\* of that team's bet records, in every reachable state.
C4_StakedEqualRecordSum ==
    \A t \in Teams : team_total_amount[t] = RecordAmounts(t)

C4_Witness ==
    /\ DOMAIN team_bets["B"] = {"u1", "u2"}
    /\ team_bets["B"]["u1"] = [amount |-> 2, points |-> 0]
    /\ team_bets["B"]["u2"].amount = 1
    /\ team_total_amount["B"] = 3

\* C5 (as claimed): what a successful end_game credits to the withdrawable
\* ledger is at most pot_value + commission + the losing team's total stake.
C5_CreditsWithinLoserBound ==
    [][last'.op = "end_game" =>
          Credited <= ClaimPotValue + ClaimCommission
                        + team_total_amount[OtherTeam(last'.team)]]_vars

\* C5 (amended): what a successful end_game credits to the withdrawable
\* ledger is at most pot_value + commission + the losing team's total stake
\* + the winning team's total stake (the winners' own stakes are returned).
C5_CreditsWithinStakeBound ==
    [][last'.op = "end_game" =>
          Credited <= ClaimPotValue + ClaimCommission
                        + team_total_amount[OtherTeam(last'.team)]
                        + team_total_amount[last'.team]]_vars

C5_Witness ==
    /\ last.op = "end_game"
    /\ credits = 1
    /\ team_total_amount[winning_team] > 0
    /\ Cardinality(DOMAIN team_bets[OtherTeam(winning_team)]) = 2
    /\ team_total_amount[OtherTeam(winning_team)]
         > ClaimPotValue + ClaimCommission
    /\ \E a \in DOMAIN team_bets[OtherTeam(winning_team)] :
         a \notin DOMAIN team_bets[winning_team] /\ Balance(a) > 0

\* C6: a successful force_end_game_refund acts on an active game, deactivates
\* it, sets force-refund mode and adds to every account's withdrawable
\* balance exactly what that account staked over both teams (nothing for an
\* account without a bet, no commission).
C6_ForceRefundExact ==
    [][last'.op = "force_end_game_refund" =>
          /\ game_active
          /\ ~game_active'
          /\ force_refund_mode'
          /\ \A a \in Accounts : BalanceAfter(a) = Balance(a) + StakeOf(a)]_vars

C6_Witness ==
    /\ last.op = "force_end_game_refund"
    /\ game_started
    /\ commission_rate = 50
    /\ "u1" \in DOMAIN team_bets["A"] /\ "u1" \in DOMAIN team_bets["B"]
    /\ ThrowCount("u2") >= 1
    /\ Balance("u1") = StakeOf("u1")
    /\ Balance("u2") = StakeOf("u2")
    /\ Balance("admin") = 0

\* C7: every successful throw_points moves a strictly positive number of
\* points out of the donor's record to the other team's total and leaves the
\* donor's record with at least 1 point; a throw whose computed amount
\* floor(points * percent / 100) is <= 0, or that would leave the donor with
\* fewer than 1 point, is rejected.
C7_ThrowPositiveKeepsOne ==
    /\ [](\A c \in Bettors, percent \in Percents :
            OnOneTeam(c) =>
              LET pts == team_bets[DonorTeam(c)][c].points
                  moved == (pts * percent) \div 100
              IN (moved <= 0 \/ pts - moved < 1) =>
                    throw_points_err(c, percent) # "")
    /\ [][last'.op = "throw_points" =>
            LET c == last'.caller
                t == last'.team
                before == team_bets[t][c].points
                after == team_bets'[t][c].points
            IN /\ before - after > 0
               /\ after >= 1
               /\ team_points'[OtherTeam(t)] - team_points[OtherTeam(t)]
                    = before - after]_vars

C7_Witness ==
    /\ last.op = "throw_points"
    /\ last.caller = "u2"
    /\ team_bets["B"]["u2"].points = 13
    /\ OnOneTeam("u1")
    /\ throw_points_err("u1", 60) = "Invalid amount"

C9_StartGameResets ==
    last.op = "start_game" =>
        /\ game_active
        /\ \A t \in Teams :
              /\ team_bets[t] = EmptyDict
              /\ team_points[t] = 0
              /\ team_total_amount[t] = 0
        /\ \A c \in Accounts : ThrowCount(c) = 0
        /\ ~game_started
        /\ game_start_time = 0
        /\ ~force_refund_mode
        /\ winning_team = ""

C9_Witness ==
    /\ last.op = "start_game"
    /\ block_timestamp > 0
    /\ pot_size = 1
    /\ commission_rate = 50

\* C10: end_game succeeds only when the timer is armed and the two teams'
\* total points differ; it then records the team with the strictly lower
\* total as the winner and deactivates the game; with equal totals it is
\* rejected (for every caller), leaving winner, activity and ledger as they
\* were.
C10_LowerTotalWins ==
    /\ [](team_points["A"] = team_points["B"] =>
            \A c \in Accounts : end_game_err(c) # "")
    /\ [][last'.op = "end_game" =>
            /\ game_started
            /\ team_points["A"] # team_points["B"]
            /\ winning_team' \in Teams
            /\ team_points[winning_team'] < team_points[OtherTeam(winning_team')]
            /\ ~game_active']_vars

C10_Witness ==
    /\ last.op = "end_game"
    /\ winning_team = "B"
    /\ team_points["B"] > 0
    /\ team_points["B"] < team_points["A"]
    /\ ~game_active

\* C11: withdraw succeeds only while no game is active and only with a
\* non-zero withdrawable balance of the caller; a successful withdraw pays
\* the caller exactly the prior balance, sets the caller's balance to 0 and
\* leaves every other account's balance unchanged; with a zero balance the
\* call is rejected.
C11_WithdrawExact ==
    /\ [](\A c \in Accounts : Balance(c) = 0 => withdraw_err(c) # "")
    /\ [](\A c \in Accounts : game_active => withdraw_err(c) # "")
    /\ [][last'.op = "withdraw" =>
            /\ ~game_active
            /\ Balance(last'.caller) # 0
            /\ last'.n = Balance(last'.caller)
            /\ BalanceAfter(last'.caller) = 0
            /\ \A a \in Accounts \ {last'.caller} :
                  BalanceAfter(a) = Balance(a)]_vars

C11_Witness ==
    /\ last.op = "withdraw"
    /\ last.caller = "u1"
    /\ last.n = 4
    /\ Balance("u1") = 0
    /\ Balance("u2") > 0
    /\ Balance("admin") > 0
    /\ ~game_active

ClaimHalfUnit == ONE_NEAR \div 2

\* C12: bet_on_team changes state only if the contract is not paused, a game
\* is active, force-refund mode is not set, the caller is not banned and the
\* attached value is at least half a staking unit; whenever one of these
\* fails the call is rejected, and no bet succeeds in a state where
\* force-refund mode is set.
C12_BetPreconditions ==
    /\ [](\A c \in Bettors, t \in {"A", "B", "X"}, v \in Deposits :
            (\/ paused
             \/ ~game_active
             \/ force_refund_mode
             \/ Get(banned_players, c, FALSE)
             \/ v < ClaimHalfUnit) => bet_on_team_err(c, t, v) # "")
    /\ [][last'.op = "bet_on_team" =>
            /\ ~paused
            /\ game_active
            /\ ~force_refund_mode
            /\ ~Get(banned_players, last'.caller, FALSE)
            /\ last'.n >= ClaimHalfUnit]_vars

C12_Witness ==
    /\ last.op = "bet_on_team"
    /\ last.caller = "u2"
    /\ last.n = ClaimHalfUnit
    /\ "u2" \in DOMAIN banned_players
    /\ ~banned_players["u2"]
    /\ game_started
    /\ team_bets["B"]["u2"].amount = 3

\* the percents at and next to the bounds of both windows
EdgePercents == {0, 19, 20, 21, 39, 40, 41, 59, 60, 61, 89, 90, 91, 100}

\* time since arming, in the clock's units
ClaimElapsed == block_timestamp - game_start_time

ClaimWindowOK(percent) ==
    \/ ClaimElapsed < 3 * HOUR_NS /\ 60 <= percent /\ percent <= 90
    \/ /\ 3 * HOUR_NS <= ClaimElapsed /\ ClaimElapsed < 6 * HOUR_NS
       /\ 20 <= percent /\ percent <= 40

\* C13: throw_points(percent) succeeds only if percent lies, bounds included,
\* in the window of the time elapsed since arming: [60,90] before 3 full
\* hours, [20,40] from 3 hours up to but excluding 6 hours; from 6 hours on
\* every throw is rejected whatever the percent.  A percent inside the
\* window, bounds included, is accepted when every other check passes.
C13_ThrowWindows ==
    /\ [](\A c \in Bettors, percent \in EdgePercents :
            LET err == throw_points_err(c, percent)
            IN /\ err = "" => ClaimWindowOK(percent)
               /\ ClaimElapsed >= 6 * HOUR_NS => err # ""
               /\ (/\ ~paused /\ game_started
                   /\ ~Get(banned_players, c, FALSE)
                   /\ OnOneTeam(c) /\ ThrowCount(c) < 2
                   /\ ClaimWindowOK(percent)
                   /\ LET pts == team_bets[DonorTeam(c)][c].points
                          moved == (pts * percent) \div 100
                      IN moved > 0 /\ pts - moved >= 1)
                  => err = "")
    /\ [][last'.op = "throw_points" => ClaimWindowOK(last'.n)]_vars

C13_Witness ==
    /\ last.op = "throw_points"
    /\ last.n = 20
    /\ ClaimElapsed = 11
    /\ ThrowCount(last.caller) = 2
    /\ throw_points_err("u1", 40) = ""
    /\ throw_points_err("u1", 41) # ""

\* the game instance has ended or was force-refunded
ClaimTerminal == ~game_active /\ (winning_team # "" \/ force_refund_mode)

\* C14: once a game instance is Ended or ForceRefunded, no throw_points and
\* no bet_on_team succeeds, and every bet record, every throw count and both
\* teams' total points stay unchanged until the next successful start_game.
C14_TerminalFreezes ==
    [][(ClaimTerminal /\ last'.op # "start_game") =>
          /\ last'.op \notin {"throw_points", "bet_on_team"}
          /\ UNCHANGED <<team_bets, transfer_counts, team_points>>]_vars

\* what a successful end_game with winner w credits to account a, by part
ClaimWinCredit(a, w, total) ==
    IF a \in DOMAIN team_bets[w]
    THEN team_bets[w][a].amount
         + (IF total = 0 THEN 0
            ELSE (team_bets[w][a].points * ClaimPotValue) \div total)
    ELSE 0

ClaimLoseCredit(a, w) ==
    LET l == OtherTeam(w)
        payable == ClaimPotValue + ClaimCommission
    IN IF a \in DOMAIN team_bets[l] /\ team_total_amount[l] >= payable
       THEN team_bets[l][a].amount
            - (team_bets[l][a].amount * payable) \div team_total_amount[l]
       ELSE 0

ClaimAdminCredit(a) == IF a = admin THEN ClaimCommission ELSE 0

\* C15 (as claimed): a successful end_game credits each winning record's
\* owner stake + floor(record.points * pot_value / T), T being the winning
\* team's aggregate total points (share 0 when T is 0), besides what the
\* owner gets as a losing bettor or as the admin.
C15_ShareByTeamTotal ==
    [][last'.op = "end_game" =>
          \A a \in DOMAIN team_bets[last'.team] :
             BalanceAfter(a) - Balance(a)
                = ClaimWinCredit(a, last'.team, team_points[last'.team])
                  + ClaimLoseCredit(a, last'.team) + ClaimAdminCredit(a)]_vars

\* C15 (amended): a successful end_game credits each winning record's owner
\* stake + floor(record.points * pot_value / S), S being the sum of the
\* points of the winning team's bet records (share 0 when S is 0), besides
\* what the owner gets as a losing bettor or as the admin; S is less than
\* the team's aggregate total when the team has received thrown points.
C15_ShareByRecordSum ==
    [][last'.op = "end_game" =>
          \A a \in DOMAIN team_bets[last'.team] :
             BalanceAfter(a) - Balance(a)
                = ClaimWinCredit(a, last'.team, RecordPoints(last'.team))
                  + ClaimLoseCredit(a, last'.team) + ClaimAdminCredit(a)]_vars

C15_Witness ==
    /\ last.op = "end_game"
    /\ credits = 1
    /\ winning_team = "A"
    /\ RecordPoints("A") > 0
    /\ team_points["A"] > RecordPoints("A")
    /\ Balance("u1") = team_bets["A"]["u1"].amount + ClaimPotValue

\* C16: on a successful end_game loser refunds are credited if and only if
\* the losing team's total staked amount L is at least total_payable =
\* pot_value + commission; then each losing record's owner is credited
\* exactly stake - floor(stake * total_payable / L), which lies between 0 and
\* stake; otherwise no losing bettor is credited anything as a loser.
C16_LoserRefunds ==
    [][last'.op = "end_game" =>
          LET w == last'.team
              l == OtherTeam(w)
              L == team_total_amount[l]
              payable == ClaimPotValue + ClaimCommission
          IN \A a \in DOMAIN team_bets[l] :
                LET stake == team_bets[l][a].amount
                    refund == BalanceAfter(a) - Balance(a)
                              - ClaimWinCredit(a, w, RecordPoints(w))
                              - ClaimAdminCredit(a)
                IN /\ L >= payable =>
                        /\ refund = stake - (stake * payable) \div L
                        /\ 0 <= refund /\ refund <= stake
                   /\ L < payable => refund = 0]_vars

C16_Witness ==
    /\ last.op = "end_game"
    /\ credits = 1
    /\ winning_team = "A"
    /\ commission_rate = 0
    /\ DOMAIN team_bets["B"] = {"u1", "u2"}
    /\ team_total_amount["B"] = 3
    /\ Balance("u2") = 1
    /\ DOMAIN team_bets["A"] = {"u1"}
    /\ Balance("u1") = team_bets["A"]["u1"].amount + ClaimPotValue + 1

\* C17: a successful bet in a game whose timer is not armed arms the timer,
\* with start time the call's timestamp, if and only if both teams' total
\* staked amounts are then each at least pot_size * (100 + commission_rate)
\* / 100 staking units; hence whenever the timer is auto-armed each side's
\* stake covers pot_value + commission.
C17_AutoArmCovers ==
    [][(last'.op = "bet_on_team" /\ ~game_started) =>
          /\ game_started' <=>
                \A t \in Teams :
                   100 * team_total_amount'[t]
                      >= pot_size * (100 + commission_rate) * ONE_NEAR
          /\ game_started' =>
                /\ game_start_time' = block_timestamp
                /\ \A t \in Teams :
                      team_total_amount'[t]
                         >= ClaimPotValue + ClaimCommission]_vars

\* C18: for every successful end_game in which the losing team's total
\* staked amount is at least pot_value + commission, what the settlement
\* credits to the withdrawable ledger (winner stakes and shares, loser
\* refunds, commission) does not exceed the sum of both teams' total staked
\* amounts.
C18_CreditsWithinDeposits ==
    [][(/\ last'.op = "end_game"
        /\ team_total_amount[OtherTeam(last'.team)]
              >= ClaimPotValue + ClaimCommission) =>
          Credited <= team_total_amount["A"] + team_total_amount["B"]]_vars

\* C19: a successful throw_points by a player with a bet on exactly one team
\* lowers that player's record points and the donor team's total points by
\* moved = floor(points * percent / 100), raises the opposing team's total
\* points by the same amount, adds 1 to the player's throw count and leaves
\* every staked amount, every other bet record, every other throw count and
\* the withdrawable ledger unchanged; it succeeds with no bet record on the
\* opposing team; a caller with bets on both teams or on neither is rejected.
C19_ThrowFrame ==
    /\ [](\A c \in Bettors, percent \in Percents :
            ~OnOneTeam(c) => throw_points_err(c, percent) # "")
    /\ [][last'.op = "throw_points" =>
            LET c == last'.caller
                t == last'.team
                o == OtherTeam(last'.team)
                moved == (team_bets[t][c].points * last'.n) \div 100
            IN /\ OnOneTeam(c)
               /\ c \in DOMAIN team_bets[t]
               /\ team_bets'[t][c].points = team_bets[t][c].points - moved
               /\ team_bets'[t][c].amount = team_bets[t][c].amount
               /\ team_points'[t] = team_points[t] - moved
               /\ team_points'[o] = team_points[o] + moved
               /\ team_points'[t] + team_points'[o]
                     = team_points[t] + team_points[o]
               /\ ThrowCountAfter(c) = ThrowCount(c) + 1
               /\ \A a \in Accounts \ {c} : ThrowCountAfter(a) = ThrowCount(a)
               /\ DOMAIN team_bets'[t] = DOMAIN team_bets[t]
               /\ \A a \in DOMAIN team_bets[t] \ {c} :
                     team_bets'[t][a] = team_bets[t][a]
               /\ team_bets'[o] = team_bets[o]
               /\ UNCHANGED <<team_total_amount, withdrawable>>]_vars

C19_Witness ==
    /\ last.op = "throw_points"
    /\ last.caller = "u2"
    /\ last.n = 60
    /\ team_bets["A"] = EmptyDict
    /\ DOMAIN team_bets["B"] = {"u1", "u2"}
    /\ team_bets["B"]["u2"].points = 13
    /\ team_points["A"] = 19
    /\ ThrowCount("u2") = 1

ClaimTable == <<24, 23, 22, 21, 20, 19, 18, 17, 16, 15>>

\* the rate of a bet placed now: 32 before arming, then the table entry of
\* the full hours elapsed since arming, 1 from 10 hours on
ClaimRate ==
    IF ~game_started THEN 32
    ELSE IF ClaimElapsed < 10 * HOUR_NS
         THEN ClaimTable[(ClaimElapsed \div HOUR_NS) + 1]
         ELSE 1

ClaimRecord(t, a) ==
    IF a \in DOMAIN team_bets[t] THEN team_bets[t][a]
    ELSE [amount |-> 0, points |-> 0]

\* C20: a successful bet of attached value v on team T adds exactly v to the
\* caller's staked amount and to T's total staked amount, and exactly
\* floor(v / unit) * rate to the caller's points and to T's total points,
\* with rate 32 while the timer is not armed, otherwise table[h] for h full
\* hours since arming (h < 10) and 1 for h >= 10; the other records of T and
\* the other team's records and totals are unchanged.
C20_BetAccrual ==
    [][last'.op = "bet_on_team" =>
          LET c == last'.caller
              t == last'.team
              o == OtherTeam(last'.team)
              v == last'.n
              pts == (v \div ONE_NEAR) * ClaimRate
          IN /\ t \in Teams
             /\ c \in DOMAIN team_bets'[t]
             /\ team_bets'[t][c].amount = ClaimRecord(t, c).amount + v
             /\ team_bets'[t][c].points = ClaimRecord(t, c).points + pts
             /\ team_total_amount'[t] = team_total_amount[t] + v
             /\ team_points'[t] = team_points[t] + pts
             /\ DOMAIN team_bets'[t] = DOMAIN team_bets[t] \cup {c}
             /\ \A a \in DOMAIN team_bets[t] \ {c} :
                   team_bets'[t][a] = team_bets[t][a]
             /\ team_bets'[o] = team_bets[o]
             /\ team_total_amount'[o] = team_total_amount[o]
             /\ team_points'[o] = team_points[o]]_vars

C20_Witness ==
    /\ last.op = "bet_on_team"
    /\ last.caller = "u1"
    /\ last.n = 3
    /\ game_started
    /\ ClaimElapsed = 20
    /\ team_bets["A"]["u1"] = [amount |-> 3, points |-> 1]
    /\ "u2" \in DOMAIN team_bets["B"]
    /\ team_bets["B"]["u2"].amount = 2

====
